---------------------------- MODULE Spec2Model ----------------------------
(***************************************************************************)
(* Summarize-Scientific-Documents.ipynb as a state machine.                *)
(*                                                                         *)
(* The notebook is a linear script of code cells.  Each cell (or each      *)
(* iteration of a loop inside a cell) is one action; pc names the next     *)
(* statement to run.  The hosted services (S3, Comprehend, the SageMaker   *)
(* endpoint) are the environment: what they return is drawn with \E.       *)
(* An uncaught Python exception ends the run (pc = "raised").              *)
(*                                                                         *)
(* The two display-only cells ("Look at a few examples", "Let's look at    *)
(* some specific examples") print and write nothing that is read later;    *)
(* they are not modelled.                                                  *)
(***************************************************************************)
EXTENDS Integers, Sequences, FiniteSets, TLC

VARIABLES
    pc,                                 \* next statement of the script
    error,                              \* the uncaught exception, or "none"
    downloaded,                         \* articles fetched by the for loop
    local_data,                         \* what is under the local data directory
    s3_objects,                         \* what the run has put into the project bucket
    number_of_comprehend_status_checks, \* the notebook's counter
    JobStatus,                          \* describe_topics_detection_job_result['JobStatus']
    topic_terms_csv,                    \* rows of data/topic-terms.csv
    doc_topics_csv,                     \* rows of data/doc-topics.csv
    topics,                             \* the grouped term table
    docs,                               \* the sorted document-topic table
    results,                            \* pd.merge(docs, topics, ...)
    endpoint,                           \* the deployed predictor
    background,                         \* articles whose text has "Background ..."
    art,                                \* the article sampled by the search loop
    result,                             \* re.search(...) / get_result(...)
    captured,                           \* length of result.group(1)
    inputs,                             \* length of dict["inputs"], -1 before it is built
    sm_model,                           \* the SageMaker model made by deploy
    waiter,                             \* WaiterConfig passed to get_result
    attempts,                           \* polls made by get_result
    waited,                             \* seconds get_result has slept
    \* history (not program variables): what the run has done so far
    uploads,                            \* upload_data calls
    submits,                            \* start_topics_detection_job calls
    describe_calls,                     \* describe_topics_detection_job calls
    sleeps,                             \* sleep(comprehend_status_check_sleep) calls
    slept,                              \* seconds the polling loop has slept
    first_completed_at,                 \* index of the first check that saw COMPLETED, or 0
    observed_other,                     \* some check saw a status other than COMPLETED
    parses,                             \* times the result files were downloaded and parsed
    invocations,                        \* predict_async calls
    cleanup_steps                       \* clean-up statements run, in order

vars == <<pc, error, downloaded, local_data, s3_objects,
          number_of_comprehend_status_checks, JobStatus,
          topic_terms_csv, doc_topics_csv, topics, docs, results,
          endpoint, background, art, result, captured, inputs, sm_model,
          waiter, attempts, waited,
          uploads, submits, describe_calls, sleeps, slept, first_completed_at,
          observed_other, parses, invocations, cleanup_steps>>

---------------------------------------------------------------------------
(* Program constants *)

NumArticles == 25
maximum_comprehend_status_checks == 20
comprehend_status_check_sleep == 60
max_attempts == 24
delay == 15

article_names == 1..NumArticles

(* JobStatus values of the Comprehend API *)
JobStatuses ==
    {"SUBMITTED", "IN_PROGRESS", "COMPLETED", "FAILED", "STOP_REQUESTED", "STOPPED"}

(* Bounds of the model *)
MaxDescribeCalls == 22
MaxTermRows == 2
MaxDocRows == 2

None == "None"
Unset == "unset"


---------------------------------------------------------------------------
(* The result tables.  A cell of a string column is a value or NaN; a      *)
(* string value is the sequence of its pieces, so that ", ".join is        *)
(* concatenation and can be told apart from its arguments.                 *)
(* A docname is the index of the article in article_names: the list is in  *)
(* ascending name order, so index order is name order.                     *)

NaN == [isna |-> TRUE, val |-> <<>>]
Str(s) == [isna |-> FALSE, val |-> <<s>>]

(* read_csv turns these field texts into NaN (pandas' default na_values) *)
NAStrings == {"null"}

ReadField(s) == IF s \in NAStrings THEN NaN ELSE Str(s)

(* pd.read_csv("data/topic-terms.csv") *)
ReadTopicTerms(file) ==
    [i \in DOMAIN file |->
        [topic |-> file[i].topic, term |-> ReadField(file[i].term), weight |-> file[i].weight]]

(* pd.read_csv("data/doc-topics.csv") *)
ReadDocTopics(file) == file

(* .sort_values(["topic", "weight"], ascending=[True, False]) *)
TermBefore(a, b) ==
    \/ a.topic < b.topic
    \/ (a.topic = b.topic /\ a.weight > b.weight)

(* .sort_values(["docname", "proportion"], ascending=[True, False]) *)
DocBefore(a, b) ==
    \/ a.docname < b.docname
    \/ (a.docname = b.docname /\ a.proportion > b.proportion)

(* the order of a sort by the columns by *)
Before(by, a, b) == IF by = "topic" THEN TermBefore(a, b) ELSE DocBefore(a, b)

(* DataFrame.sort_values on several columns is a stable sort: row i goes   *)
(* after every row that sorts before it and after every earlier row that   *)
(* ties with it.                                                           *)
StableSort(s, by) ==
    LET n == Len(s)
        Rank(i) == 1 + Cardinality({j \in 1..n :
                        \/ Before(by, s[j], s[i])
                        \/ (~Before(by, s[i], s[j]) /\ j < i)})
    IN  [k \in 1..n |-> s[CHOOSE i \in 1..n : Rank(i) = k]]

(* the keys of a groupby, ascending *)
SortedKeys(K) ==
    [k \in 1..Cardinality(K) |-> CHOOSE t \in K : Cardinality({u \in K : u < t}) = k - 1]

(* ", ".join(x) *)
RECURSIVE JoinTerms(_)
JoinTerms(cells) ==
    IF Len(cells) = 0 THEN <<>>
    ELSE IF Len(cells) = 1 THEN cells[1].val
    ELSE cells[1].val \o <<", ">> \o JoinTerms(Tail(cells))

(* ", ".join raises TypeError on a NaN (a float) *)
JoinRaises(rows) == \E i \in DOMAIN rows : rows[i].term.isna

(* the grouping left out: one right row per term row *)
GroupTerms_Ungrouped(rows) ==
    [i \in DOMAIN rows |-> [topic |-> rows[i].topic, term |-> rows[i].term]]

(* .groupby(["topic"])["term"].agg(lambda x: ", ".join(x)): one row per    *)
(* topic, in ascending topic order, the group's terms in the rows' order.  *)
GroupTerms(rows) ==
    LET keys == SortedKeys({rows[i].topic : i \in DOMAIN rows})
        InGroup(t) == LET Has(r) == r.topic = t IN SelectSeq(rows, Has)
        Terms(t) == [i \in DOMAIN InGroup(t) |-> InGroup(t)[i].term]
    IN  [k \in DOMAIN keys |->
            [topic |-> keys[k],
             term |-> [isna |-> FALSE, val |-> JoinTerms(Terms(keys[k]))]]]

(* pd.merge(left, right, how="left", on="topic"): the left rows in their   *)
(* order, each once per matching right row, or once with NaN if none.      *)
RECURSIVE Merge(_, _)
Merge(left, right) ==
    IF left = <<>> THEN <<>>
    ELSE LET l == Head(left)
             Match(r) == r.topic = l.topic
             m == SelectSeq(right, Match)
             Row(t) == [docname |-> l.docname, topic |-> l.topic,
                        proportion |-> l.proportion, term |-> t]
         IN  (IF m = <<>> THEN <<Row(NaN)>> ELSE [j \in DOMAIN m |-> Row(m[j].term)])
             \o Merge(Tail(left), right)

(* topics = ... ; docs = ... ; results = ... *)
TopicsOf(file) == GroupTerms(StableSort(ReadTopicTerms(file), "topic"))
DocsOf(file) == StableSort(ReadDocTopics(file), "docname")
ResultsOf(tt, dt) == Merge(DocsOf(dt), TopicsOf(tt))

---------------------------------------------------------------------------
(* What the environment can hand to the script *)

(* which articles contain the Background pattern *)
BackgroundSets ==
    {{}, {1}, {NumArticles}, {2, 3}, article_names}

(* rows the Comprehend output files can hold *)
(* (topic 1: two terms and two weights; topic 0: a term that reads as NaN; *)
(* topic 2: no terms)                                                      *)
TermRows ==
    [topic : {1}, term : {"a", "b"}, weight : {1, 2}]
        \cup [topic : {0}, term : {"c", "null"}, weight : {1}]
DocRows ==
    [docname : {1}, topic : {1, 2}, proportion : {1, 2}]
        \cup [docname : {2}, topic : {1}, proportion : {1}]
        \cup [docname : {1}, topic : {0}, proportion : {1}]

(* how many characters can follow "Background " in an article *)
TailLengths == {0, 1000, 1001}

TermFiles == UNION {[1..n -> TermRows] : n \in 1..MaxTermRows}
DocFiles == UNION {[1..n -> DocRows] : n \in 1..MaxDocRows}

(* the output of one small job, for the runs of the whole script *)
SampleTermFiles ==
    {<<[topic |-> 1, term |-> "a", weight |-> 1], [topic |-> 1, term |-> "b", weight |-> 2]>>,
     <<[topic |-> 0, term |-> "null", weight |-> 1]>>}
SampleDocFiles ==
    {<<[docname |-> 2, topic |-> 1, proportion |-> 1],
       [docname |-> 1, topic |-> 2, proportion |-> 2]>>}

---------------------------------------------------------------------------
(* The script *)

Init ==
    /\ pc = "download"
    /\ error = "none"
    /\ downloaded = 0
    /\ local_data = {}
    /\ s3_objects = {}
    /\ number_of_comprehend_status_checks = 0
    /\ JobStatus = Unset
    /\ topic_terms_csv = <<>>
    /\ doc_topics_csv = <<>>
    /\ topics = <<>>
    /\ docs = <<>>
    /\ results = <<>>
    /\ endpoint = "none"
    /\ background \in BackgroundSets
    /\ art = 0
    /\ result = None
    /\ captured = 0
    /\ inputs = -1
    /\ sm_model = "none"
    /\ waiter = [max_attempts |-> 0, delay |-> 0]
    /\ attempts = 0
    /\ waited = 0
    /\ uploads = 0
    /\ submits = 0
    /\ describe_calls = 0
    /\ sleeps = 0
    /\ slept = 0
    /\ first_completed_at = 0
    /\ observed_other = FALSE
    /\ parses = 0
    /\ invocations = 0
    /\ cleanup_steps = <<>>

tables == <<topic_terms_csv, doc_topics_csv, topics, docs, results>>
polling == <<number_of_comprehend_status_checks, JobStatus, describe_calls, sleeps, slept,
             first_completed_at, observed_other>>
payload == <<captured, inputs>>
inference == <<endpoint, sm_model, art, result, payload, waiter, attempts, waited, invocations>>

(* for article in article_names: sm_session.download_data(...) *)
DownloadArticle ==
    /\ pc = "download"
    /\ downloaded < NumArticles
    /\ downloaded' = downloaded + 1
    /\ local_data' = local_data \cup {"raw"}
    /\ UNCHANGED <<pc, error, s3_objects, tables, polling, inference, background,
                   uploads, submits, parses, cleanup_steps>>

(* the upload inside the loop: it runs after the first download *)
UploadData_InLoop ==
    /\ pc = "download"
    /\ downloaded >= 1
    /\ s3_objects' = s3_objects \cup {"raw"}
    /\ uploads' = uploads + 1
    /\ pc' = "submit"
    /\ UNCHANGED <<error, downloaded, local_data, tables, polling, inference, background,
                   submits, parses, cleanup_steps>>

(* the loop is over: sm_session.upload_data(local_raw_data_dir, ...) *)
UploadData ==
    /\ pc = "download"
    /\ downloaded = NumArticles
    /\ s3_objects' = s3_objects \cup {"raw"}
    /\ uploads' = uploads + 1
    /\ pc' = "submit"
    /\ UNCHANGED <<error, downloaded, local_data, tables, polling, inference, background,
                   submits, parses, cleanup_steps>>

(* comprehend.start_topics_detection_job(...) *)
StartTopicsDetectionJob ==
    /\ pc = "submit"
    /\ submits' = submits + 1
    /\ pc' = "poll"
    /\ UNCHANGED <<error, downloaded, local_data, s3_objects, tables, polling, inference,
                   background, uploads, parses, cleanup_steps>>

(* the bound tested with <= *)
LoopCondition_OffByOne(n) == n <= maximum_comprehend_status_checks

(* while number_of_comprehend_status_checks < maximum_comprehend_status_checks *)
LoopCondition(n) == n < maximum_comprehend_status_checks

(* any final status taken for success *)
Completed_AnyFinal(status) == status \in {"COMPLETED", "FAILED", "STOPPED"}

(* describe_topics_detection_job_result['JobStatus'] == "COMPLETED" *)
Completed(status) == status = "COMPLETED"

(* One iteration of the loop up to the break: the describe call, the       *)
(* counter (which becomes count), the test (which leads to next).  A job   *)
(* that is COMPLETED has written its output.                               *)
CheckStep(st, count, next) ==
    /\ pc = "poll"
    /\ LoopCondition(number_of_comprehend_status_checks)
    /\ describe_calls < MaxDescribeCalls
    /\ describe_calls' = describe_calls + 1
    /\ number_of_comprehend_status_checks' = count
    /\ JobStatus' = st
    /\ first_completed_at' =
          IF st = "COMPLETED" /\ first_completed_at = 0
          THEN describe_calls + 1 ELSE first_completed_at
    /\ observed_other' = (observed_other \/ st # "COMPLETED")
    /\ s3_objects' = IF st = "COMPLETED" THEN s3_objects \cup {"output"} ELSE s3_objects
    /\ pc' = next
    /\ UNCHANGED <<error, downloaded, local_data, tables, inference, background,
                   uploads, submits, sleeps, slept, parses, cleanup_steps>>

(* the break left out *)
StatusCheck_NoBreak(st) ==
    CheckStep(st, number_of_comprehend_status_checks + 1, "sleep")

(* the counter not advanced *)
StatusCheck_NoIncrement(st) ==
    CheckStep(st, number_of_comprehend_status_checks,
              IF Completed(st) THEN "poll_end" ELSE "sleep")

(* a failed job ends the loop at once *)
StatusCheck_StopOnFailed(st) ==
    CheckStep(st, number_of_comprehend_status_checks + 1,
              IF Completed(st) \/ st = "FAILED" THEN "poll_end" ELSE "sleep")

(* the sleep left out: the next check follows at once *)
StatusCheck_NoSleep(st) ==
    CheckStep(st, number_of_comprehend_status_checks + 1,
              IF Completed(st) THEN "poll_end" ELSE "poll")

(* no sleep after the last allowed check *)
StatusCheck_NoSleepOnLast(st) ==
    CheckStep(st, number_of_comprehend_status_checks + 1,
              IF Completed(st) THEN "poll_end"
              ELSE IF LoopCondition(number_of_comprehend_status_checks + 1)
                   THEN "sleep" ELSE "poll")

(* number_of_comprehend_status_checks += 1; if ... == "COMPLETED": break *)
StatusCheck(st) ==
    CheckStep(st, number_of_comprehend_status_checks + 1,
              IF Completed(st) THEN "poll_end" ELSE "sleep")

(* sleep(comprehend_status_check_sleep) *)
Sleep ==
    /\ pc = "sleep"
    /\ sleeps' = sleeps + 1
    /\ slept' = slept + comprehend_status_check_sleep
    /\ pc' = "poll"
    /\ UNCHANGED <<error, downloaded, local_data, s3_objects, tables, inference, background,
                   number_of_comprehend_status_checks, JobStatus, describe_calls,
                   first_completed_at, observed_other,
                   uploads, submits, parses, cleanup_steps>>

(* the while condition is false: the loop ends *)
WhileExit ==
    /\ pc = "poll"
    /\ ~LoopCondition(number_of_comprehend_status_checks)
    /\ pc' = "poll_end"
    /\ UNCHANGED <<error, downloaded, local_data, s3_objects, tables, polling, inference,
                   background, uploads, submits, parses, cleanup_steps>>

(* the error raised for a failed job only *)
TimeoutGuard_OnlyFailed ==
    /\ pc = "poll_end"
    /\ IF JobStatus = "FAILED"
       THEN /\ error' = "UserWarning"
            /\ pc' = "raised"
       ELSE /\ error' = error
            /\ pc' = "parse"
    /\ UNCHANGED <<downloaded, local_data, s3_objects, tables, polling, inference,
                   background, uploads, submits, parses, cleanup_steps>>

(* the job submitted again instead of the error *)
TimeoutGuard_Resubmit ==
    /\ pc = "poll_end"
    /\ IF JobStatus # "COMPLETED"
       THEN /\ submits' = submits + 1
            /\ number_of_comprehend_status_checks' = 0
            /\ pc' = "poll"
       ELSE /\ pc' = "parse"
            /\ UNCHANGED <<submits, number_of_comprehend_status_checks>>
    /\ UNCHANGED <<error, downloaded, local_data, s3_objects, tables, inference,
                   JobStatus, describe_calls, sleeps, slept, first_completed_at, observed_other,
                   background, uploads, parses, cleanup_steps>>

(* the clean-up cell run by the error before it is raised *)
TimeoutGuard_CleansUp ==
    /\ pc = "poll_end"
    /\ IF ~Completed(JobStatus)
       THEN /\ error' = "UserWarning"
            /\ s3_objects' = {}
            /\ local_data' = {}
            /\ cleanup_steps' = <<"endpoint", "s3", "local">>
            /\ pc' = "raised"
       ELSE /\ error' = error
            /\ pc' = "parse"
            /\ UNCHANGED <<s3_objects, local_data, cleanup_steps>>
    /\ UNCHANGED <<downloaded, tables, polling, inference,
                   background, uploads, submits, parses>>

(* the seconds named in the message:                                       *)
(* f"Waited {comprehend_status_check_sleep * maximum_comprehend_status_checks} seconds ..." *)
WarningSeconds == comprehend_status_check_sleep * maximum_comprehend_status_checks

(* if ...['JobStatus'] != "COMPLETED": raise UserWarning(...) *)
TimeoutGuard ==
    /\ pc = "poll_end"
    /\ IF ~Completed(JobStatus)
       THEN /\ error' = "UserWarning"
            /\ pc' = "raised"
       ELSE /\ error' = error
            /\ pc' = "parse"
    /\ UNCHANGED <<downloaded, local_data, s3_objects, tables, polling, inference,
                   background, uploads, submits, parses, cleanup_steps>>

(* The results cell: under its COMPLETED guard, download and unpack the    *)
(* output, read and sort the two files, group the terms, merge.            *)
ParseResults(tt, dt) ==
    /\ pc = "parse"
    /\ IF Completed(JobStatus)
       THEN /\ local_data' = local_data \cup {"output"}
            /\ parses' = parses + 1
            /\ topic_terms_csv' = tt
            /\ doc_topics_csv' = dt
            /\ IF JoinRaises(ReadTopicTerms(tt))
               THEN /\ error' = "TypeError"
                    /\ pc' = "raised"
                    /\ UNCHANGED <<topics, docs, results>>
               ELSE /\ topics' = TopicsOf(tt)
                    /\ docs' = DocsOf(dt)
                    /\ results' = ResultsOf(tt, dt)
                    /\ error' = error
                    /\ pc' = "deploy"
       ELSE /\ pc' = "deploy"
            /\ UNCHANGED <<error, local_data, parses, tables>>
    /\ UNCHANGED <<downloaded, s3_objects, polling, inference, background,
                   uploads, submits, cleanup_steps>>

(* huggingface_model.deploy(..., wait=True) *)
DeployModel ==
    /\ pc = "deploy"
    /\ sm_model' = "created"
    /\ endpoint' = "InService"
    /\ pc' = "search_begin"
    /\ UNCHANGED <<error, downloaded, local_data, s3_objects, tables, polling, background,
                   art, result, payload, waiter, attempts, waited, invocations,
                   uploads, submits, parses, cleanup_steps>>

(* result = None *)
BeginSearch ==
    /\ pc = "search_begin"
    /\ result' = None
    /\ pc' = "search"
    /\ UNCHANGED <<error, downloaded, local_data, s3_objects, tables, polling, background,
                   endpoint, sm_model, art, payload, waiter, attempts, waited, invocations,
                   uploads, submits, parses, cleanup_steps>>

(* while result is None *)
SearchLoopCondition(r) == r = None

(* the group without its limit of 1000 characters *)
Capture_Unbounded(n) == n

(* the group of "Background (.{,1000})": greedy, at most 1000 characters   *)
(* of the n that follow "Background " in the text                          *)
Capture(n) == IF n < 1000 THEN n ELSE 1000

(* every article matches *)
SearchArticle_AlwaysMatch(a, n) ==
    /\ pc = "search"
    /\ SearchLoopCondition(result)
    /\ art' = a
    /\ result' = "match"
    /\ captured' = Capture(n)
    /\ UNCHANGED <<pc, error, downloaded, local_data, s3_objects, tables, polling, background,
                   endpoint, sm_model, inputs, waiter, attempts, waited, invocations,
                   uploads, submits, parses, cleanup_steps>>

(* One iteration of while result is None: sample an article, read it with  *)
(* newlines and tabs turned into spaces, re.search.  The text is seen as   *)
(* whether it holds "Background " (a \in background) and how many          *)
(* characters n follow its first occurrence; the pattern matches exactly   *)
(* when it holds it, the group being allowed to be empty.                  *)
SearchArticle(a, n) ==
    /\ pc = "search"
    /\ SearchLoopCondition(result)
    /\ art' = a
    /\ result' = IF a \in background THEN "match" ELSE None
    /\ captured' = IF a \in background THEN Capture(n) ELSE captured
    /\ UNCHANGED <<pc, error, downloaded, local_data, s3_objects, tables, polling, background,
                   endpoint, sm_model, inputs, waiter, attempts, waited, invocations,
                   uploads, submits, parses, cleanup_steps>>

(* the loop ends: dict = {"inputs": result.group(1)}, which raises         *)
(* AttributeError when result is None                                      *)
BuildInput ==
    /\ pc = "search"
    /\ ~SearchLoopCondition(result)
    /\ IF result = None
       THEN /\ error' = "AttributeError"
            /\ pc' = "raised"
            /\ inputs' = inputs
       ELSE /\ inputs' = captured
            /\ pc' = "predict"
            /\ error' = error
    /\ UNCHANGED <<downloaded, local_data, s3_objects, tables, polling, background,
                   endpoint, sm_model, art, result, captured, waiter, attempts, waited,
                   invocations, uploads, submits, parses, cleanup_steps>>

(* async_response = predictor.predict_async(data=dict), which uploads the  *)
(* payload to the bucket; waiter = WaiterConfig(max_attempts=24, delay=15) *)
PredictAsync ==
    /\ pc = "predict"
    /\ invocations' = invocations + 1
    /\ waiter' = [max_attempts |-> max_attempts, delay |-> delay]
    /\ attempts' = 0
    /\ waited' = 0
    /\ s3_objects' = s3_objects \cup {"async_input"}
    /\ pc' = "wait"
    /\ UNCHANGED <<error, downloaded, local_data, tables, polling, background,
                   endpoint, sm_model, art, result, payload,
                   uploads, submits, parses, cleanup_steps>>

(* the result not waited for: the call returns whatever is there *)
WaitAttempt_NonBlocking(found) ==
    /\ pc = "wait"
    /\ attempts < waiter.max_attempts
    /\ attempts' = attempts + 1
    /\ result' = IF found THEN "generated_text" ELSE None
    /\ s3_objects' = IF found THEN s3_objects \cup {"tldr_output"} ELSE s3_objects
    /\ pc' = "cleanup"
    /\ UNCHANGED <<error, waited, downloaded, local_data, tables, polling, background,
                   endpoint, sm_model, art, payload, waiter, invocations,
                   uploads, submits, parses, cleanup_steps>>

(* result = async_response.get_result(waiter): one poll of the output      *)
(* location.  It returns the result when the output is there, raises       *)
(* after waiter.max_attempts polls, and sleeps waiter.delay otherwise.     *)
WaitAttempt(found) ==
    /\ pc = "wait"
    /\ attempts < waiter.max_attempts
    /\ attempts' = attempts + 1
    /\ IF found
       THEN /\ result' = "generated_text"
            /\ s3_objects' = s3_objects \cup {"tldr_output"}
            /\ pc' = "cleanup"
            /\ UNCHANGED <<error, waited>>
       ELSE /\ IF attempts + 1 = waiter.max_attempts
               THEN /\ error' = "PollingTimeoutError"
                    /\ pc' = "raised"
                    /\ waited' = waited
               ELSE /\ waited' = waited + waiter.delay
                    /\ UNCHANGED <<error, pc>>
            /\ UNCHANGED <<result, s3_objects>>
    /\ UNCHANGED <<downloaded, local_data, tables, polling, background,
                   endpoint, sm_model, art, payload, waiter, invocations,
                   uploads, submits, parses, cleanup_steps>>

(* predictor.delete_endpoint() *)
DeleteEndpoint ==
    /\ pc = "cleanup"
    /\ endpoint' = "deleted"
    /\ cleanup_steps' = Append(cleanup_steps, "endpoint")
    /\ pc' = "cleanup_s3"
    /\ UNCHANGED <<error, downloaded, local_data, s3_objects, tables, polling, background,
                   sm_model, art, result, payload, waiter, attempts, waited, invocations,
                   uploads, submits, parses>>

(* the key of each object, as its path components: s3_prefix is           *)
(* "sci-docs/data", the job output and the inference output lie under it,  *)
(* and predict_async puts its payload under the bucket's                   *)
(* async-endpoint-inputs/                                                  *)
S3Key(o) ==
    CASE o = "raw" -> <<"sci-docs", "data", "raw">>
      [] o = "output" -> <<"sci-docs", "data", "output">>
      [] o = "tldr_output" -> <<"sci-docs", "data", "tldr_output">>
      [] o = "async_input" -> <<"async-endpoint-inputs">>

(* bucket.objects.filter(Prefix="sci-docs").delete() *)
DeleteS3Objects ==
    /\ pc = "cleanup_s3"
    /\ s3_objects' = {o \in s3_objects : S3Key(o)[1] # "sci-docs"}
    /\ cleanup_steps' = Append(cleanup_steps, "s3")
    /\ pc' = "cleanup_local"
    /\ UNCHANGED <<error, downloaded, local_data, tables, polling, inference, background,
                   uploads, submits, parses>>

(* os.system("rm -rf data") *)
RemoveLocalData ==
    /\ pc = "cleanup_local"
    /\ local_data' = {}
    /\ cleanup_steps' = Append(cleanup_steps, "local")
    /\ pc' = "done"
    /\ UNCHANGED <<error, downloaded, s3_objects, tables, polling, inference, background,
                   uploads, submits, parses>>

PollingStep ==
    \/ \E st \in JobStatuses : StatusCheck(st)
    \/ Sleep
    \/ WhileExit
    \/ TimeoutGuard

Next ==
    \/ DownloadArticle
    \/ UploadData
    \/ StartTopicsDetectionJob
    \/ \E st \in JobStatuses : StatusCheck(st)
    \/ Sleep
    \/ WhileExit
    \/ TimeoutGuard
    \/ \E tt \in SampleTermFiles, dt \in SampleDocFiles : ParseResults(tt, dt)
    \/ DeployModel
    \/ BeginSearch
    \/ \E a \in article_names, n \in TailLengths : SearchArticle(a, n)
    \/ BuildInput
    \/ PredictAsync
    \/ \E found \in BOOLEAN : WaitAttempt(found)
    \/ DeleteEndpoint
    \/ DeleteS3Objects
    \/ RemoveLocalData

Spec == Init /\ [][Next]_vars

(* Fair sampling: while the search loop runs, an article that holds the    *)
(* pattern (if there is one) is eventually drawn by sample(article_names, 1). *)
SampleMatching ==
    \E a \in background, n \in TailLengths : SearchArticle(a, n)

FairSearchSpec == Spec /\ WF_vars(SampleMatching)

(* The interpreter runs the polling cell to its end: each of its           *)
(* statements, once reached, is executed.                                  *)
LiveSpec == Spec /\ WF_vars(PollingStep)

---------------------------------------------------------------------------
(* The results cell on every pair of output files within the bounds: the   *)
(* script stands before the cell, the job having been seen COMPLETED on    *)
(* the first check.                                                        *)

InitJoin ==
    /\ pc = "parse"
    /\ error = "none"
    /\ downloaded = NumArticles
    /\ local_data = {"raw"}
    /\ s3_objects = {"raw", "output"}
    /\ number_of_comprehend_status_checks = 1
    /\ JobStatus = "COMPLETED"
    /\ topic_terms_csv = <<>>
    /\ doc_topics_csv = <<>>
    /\ topics = <<>>
    /\ docs = <<>>
    /\ results = <<>>
    /\ endpoint = "none"
    /\ background = {1}
    /\ art = 0
    /\ result = None
    /\ captured = 0
    /\ inputs = -1
    /\ sm_model = "none"
    /\ waiter = [max_attempts |-> 0, delay |-> 0]
    /\ attempts = 0
    /\ waited = 0
    /\ uploads = 1
    /\ submits = 1
    /\ describe_calls = 1
    /\ sleeps = 0
    /\ slept = 0
    /\ first_completed_at = 1
    /\ observed_other = FALSE
    /\ parses = 0
    /\ invocations = 0
    /\ cleanup_steps = <<>>

NextJoin ==
    /\ pc = "parse"
    /\ \E tt \in TermFiles, dt \in DocFiles : ParseResults(tt, dt)

JoinSpec == InitJoin /\ [][NextJoin]_vars

---------------------------------------------------------------------------
(* Properties *)

(* where the script stands relative to the polling cell *)
BeforePolling == pc \in {"download", "submit"}
InPolling == pc \in {"poll", "sleep", "poll_end"}
PollingCellEnded == ~BeforePolling /\ ~InPolling

(* the polling cell ended by raising its UserWarning *)
TimedOut == pc = "raised" /\ error = "UserWarning"

(* C1: when no status check observed COMPLETED, the loop ends only with    *)
(* the budget of 20 checks used up, and the cell then ends by raising the  *)
(* UserWarning, whatever statuses the checks returned.                     *)
Thm_C1_TimeoutRaised ==
    /\ (pc = "poll_end" /\ first_completed_at = 0) => describe_calls = 20
    /\ (PollingCellEnded /\ first_completed_at = 0) => (TimedOut /\ describe_calls = 20)

Wit_C1_TimeoutRaised ==
    /\ TimedOut
    /\ first_completed_at = 0
    /\ describe_calls = 20
    /\ JobStatus = "IN_PROGRESS"

(* C2: the counter stays within 0..20 and equals the number of             *)
(* describe_topics_detection_job calls made so far.                        *)
Thm_C2_CounterBounded ==
    /\ number_of_comprehend_status_checks \in 0..20
    /\ number_of_comprehend_status_checks = describe_calls

(* the loop test after the 20th check: no further check can be made *)
Wit_C2_CounterBounded ==
    /\ pc = "poll"
    /\ number_of_comprehend_status_checks = 20
    /\ describe_calls = 20

(* C3: once a check has observed COMPLETED, that check is the last one     *)
(* made, the loop is left, and the UserWarning is not raised.              *)
Thm_C3_StopsAtCompleted ==
    first_completed_at # 0 =>
        /\ describe_calls = first_completed_at
        /\ number_of_comprehend_status_checks = first_completed_at
        /\ pc \notin {"poll", "sleep"}
        /\ error # "UserWarning"

(* the 20th and last allowed check is the first to observe COMPLETED, and  *)
(* the cell has ended without the error                                    *)
Wit_C3_StopsAtCompleted ==
    /\ first_completed_at = 20
    /\ pc = "parse"
    /\ error = "none"

(* C4: the polling cell, once entered, ends: with the job observed         *)
(* COMPLETED or with the UserWarning, after at most 20 checks.             *)
PollingOutcome ==
    /\ PollingCellEnded
    /\ describe_calls <= 20
    /\ \/ (JobStatus = "COMPLETED" /\ error # "UserWarning")
       \/ (JobStatus # "COMPLETED" /\ error = "UserWarning")

Thm_C4_PollingTerminates == (pc = "poll") ~> PollingOutcome

(* the cell has ended with COMPLETED after checks that saw other statuses *)
Wit_C4_PollingTerminates ==
    /\ pc = "parse"
    /\ JobStatus = "COMPLETED"
    /\ observed_other
    /\ describe_calls > 1

(* C5: the steps happen in the stated order: the upload after all 25       *)
(* downloads, the submission after the upload, the first status check      *)
(* after the submission, the download and parse of the results after the   *)
(* polling cell, the endpoint and its invocation after the parse, clean-up *)
(* after the inference result, and nothing after clean-up.                 *)
Thm_C5_StepOrder ==
    /\ uploads > 0 => downloaded = 25
    /\ submits > 0 => uploads = 1
    /\ describe_calls > 0 => submits = 1
    /\ parses > 0 => (PollingCellEnded /\ describe_calls > 0)
    /\ (endpoint # "none" \/ invocations > 0) => (parses = 1 /\ pc # "parse")
    /\ invocations > 0 => endpoint # "none"
    /\ cleanup_steps # <<>> => (invocations = 1 /\ result = "generated_text")
    /\ cleanup_steps # <<>> => pc \in {"cleanup_s3", "cleanup_local", "done"}
    /\ pc = "done" => (cleanup_steps = <<"endpoint", "s3", "local">> /\ ~ENABLED Next)

Wit_C5_StepOrder ==
    /\ pc = "done"
    /\ downloaded = 25
    /\ uploads = 1
    /\ submits = 1
    /\ parses = 1
    /\ invocations = 1

(* C6: the job is submitted once, before the polling loop, and never       *)
(* again; while the script is in the polling cell nothing is resubmitted,  *)
(* re-uploaded, re-downloaded or cleaned up, whatever the status.          *)
Thm_C6_SubmittedOnce ==
    /\ [](submits = IF BeforePolling THEN 0 ELSE 1)
    /\ [][InPolling =>
            UNCHANGED <<submits, uploads, downloaded, local_data, endpoint,
                        parses, invocations, cleanup_steps>>]_vars

(* the loop goes on after checks that reported STOPPED *)
Wit_C6_SubmittedOnce ==
    /\ pc = "sleep"
    /\ JobStatus = "STOPPED"
    /\ describe_calls = 3
    /\ submits = 1

(* C7: the wait is made with max_attempts 24 and delay 15; it polls at     *)
(* most 24 times, 15 seconds apart; while it lasts the endpoint stays up   *)
(* and no clean-up runs, and clean-up runs only once it has returned.      *)
Thm_C7_BoundedBlockingWait ==
    /\ invocations > 0 => waiter = [max_attempts |-> 24, delay |-> 15]
    /\ attempts <= 24
    /\ pc = "wait" => /\ waited = 15 * attempts
                      /\ attempts < 24
                      /\ endpoint = "InService"
                      /\ cleanup_steps = <<>>
    /\ cleanup_steps # <<>> => result = "generated_text"
    /\ error = "PollingTimeoutError" =>
          (pc = "raised" /\ attempts = 24 /\ cleanup_steps = <<>> /\ endpoint = "InService")

(* the wait before its last allowed poll *)
Wit_C7_BoundedBlockingWait ==
    /\ pc = "wait"
    /\ attempts = 23
    /\ waited = 345

(* C9: the result files are downloaded and parsed only when the last       *)
(* observed status is COMPLETED; after the UserWarning they never are.     *)
Thm_C9_ParseOnlyWhenCompleted ==
    /\ (parses > 0 \/ "output" \in local_data \/ results # <<>>) =>
          (JobStatus = "COMPLETED" /\ error # "UserWarning")
    /\ error = "UserWarning" =>
          (pc = "raised" /\ parses = 0 /\ "output" \notin local_data /\ results = <<>>)

(* the results were parsed in a run whose earlier checks saw other statuses *)
Wit_C9_ParseOnlyWhenCompleted ==
    /\ parses = 1
    /\ results # <<>>
    /\ JobStatus = "COMPLETED"
    /\ observed_other

(* C10 as stated: once some check has reported a status other than         *)
(* COMPLETED, the loop uses all 20 checks and the cell raises the error.   *)
Cex_C10_AnyOtherStatusTimesOut ==
    (observed_other /\ PollingCellEnded) => (describe_calls = 20 /\ error = "UserWarning")

(* C10, amended: a check that reports a status other than COMPLETED        *)
(* (FAILED included) never ends the loop early: the loop is left after     *)
(* such a check only when all 20 checks are used, and the error is raised  *)
(* only then and only if no check observed COMPLETED.                      *)
Thm_C10_NoEarlyFailure ==
    /\ (pc = "poll_end" /\ JobStatus # "COMPLETED") => describe_calls = 20
    /\ pc = "sleep" => (JobStatus # "COMPLETED" /\ ENABLED Sleep)
    /\ (pc = "poll" /\ describe_calls \in 1..19) =>
          (ENABLED (\E st \in JobStatuses : StatusCheck(st)) /\ ~ENABLED WhileExit)
    /\ error = "UserWarning" => (describe_calls = 20 /\ first_completed_at = 0)

(* the error raised after 20 checks, the last of which reported FAILED *)
Wit_C10_NoEarlyFailure ==
    /\ TimedOut
    /\ JobStatus = "FAILED"
    /\ describe_calls = 20

(* C11: every sleep lasts 60 seconds; each check that did not observe     *)
(* COMPLETED is followed by exactly one sleep before the loop goes on, and *)
(* a check that observed COMPLETED by none: whenever the loop is about to  *)
(* test its condition again there have been as many sleeps as checks.      *)
Thm_C11_OneSleepPerCheck ==
    LET not_completed == describe_calls - (IF first_completed_at # 0 THEN 1 ELSE 0)
    IN  /\ slept = 60 * sleeps
        /\ pc = "sleep" => (JobStatus # "COMPLETED" /\ sleeps = not_completed - 1)
        /\ pc # "sleep" => sleeps = not_completed
        /\ (pc = "poll" /\ describe_calls > 0) => sleeps = describe_calls

(* the loop before its fourth check, after three checks and three sleeps *)
Wit_C11_OneSleepPerCheck ==
    /\ pc = "poll"
    /\ describe_calls = 3
    /\ sleeps = 3
    /\ slept = 180

(* C12: when the UserWarning is raised the 1200 seconds of its message are *)
(* the seconds the loop slept: 20 sleeps of 60 seconds, the last of them   *)
(* after the 20th check.                                                   *)
Thm_C12_MessageIsTimeSlept ==
    /\ WarningSeconds = 1200
    /\ (pc = "poll_end" /\ JobStatus # "COMPLETED") => (describe_calls = 20 /\ sleeps = 20)
    /\ error = "UserWarning" =>
          (sleeps = 20 /\ slept = 20 * 60 /\ slept = WarningSeconds /\ describe_calls = 20)

Wit_C12_MessageIsTimeSlept ==
    /\ TimedOut
    /\ sleeps = 20
    /\ slept = 1200
    /\ describe_calls = 20

(* the statements after the search cell *)
AfterSearch == pc \in {"predict", "wait", "cleanup", "cleanup_s3", "cleanup_local", "done"}

(* C13: the search loop is left only with a match: the article last        *)
(* sampled holds "Background ", building the input does not fail, and the  *)
(* input is at most 1000 characters long.                                  *)
Thm_C13_ExitOnlyWithMatch ==
    /\ (pc = "search" /\ result # None) => (art \in background /\ result = "match")
    /\ error # "AttributeError"
    /\ AfterSearch => (art \in background /\ inputs \in 0..1000)
    /\ inputs # -1 => (inputs = captured /\ inputs <= 1000)

(* the input built from an article with more than 1000 characters after    *)
(* "Background ", the only one of the 25 that holds it                     *)
Wit_C13_ExitOnlyWithMatch ==
    /\ pc = "predict"
    /\ background = {25}
    /\ art = 25
    /\ inputs = 1000

(* C14: with an article that holds the pattern the search loop, under fair *)
(* sampling, is eventually left; with none it is never left, every         *)
(* iteration being followed by another, and the script reaches neither     *)
(* the inference call nor clean-up.                                        *)
Thm_C14_SearchUnbounded ==
    /\ (pc = "search" /\ background # {}) ~> (result # None)
    /\ [](background = {} =>
            /\ ~AfterSearch
            /\ invocations = 0
            /\ cleanup_steps = <<>>
            /\ (pc = "search" => (result = None /\ ENABLED (\E a \in article_names,
                                     n \in TailLengths : SearchArticle(a, n)))))
    /\ [][(pc = "search" /\ background = {}) => pc' = "search"]_vars

(* the loop still running over articles none of which holds the pattern *)
Wit_C14_SearchUnbounded ==
    /\ pc = "search"
    /\ background = {}
    /\ art = 25
    /\ result = None

(* C15: clean-up deletes the endpoint, then the objects under "sci-docs", *)
(* then the local data directory, and after it none of the resources the  *)
(* run created remain.                                                     *)
Cex_C15_NothingRemains ==
    pc = "done" =>
        /\ cleanup_steps = <<"endpoint", "s3", "local">>
        /\ endpoint = "deleted"
        /\ \A o \in s3_objects : S3Key(o)[1] # "sci-docs"
        /\ local_data = {}
        /\ s3_objects = {}
        /\ sm_model = "none"

(* C16: the timeout error ends the run: no clean-up step is performed, the *)
(* raise leaves the uploaded objects and the local data directory as they  *)
(* were, no endpoint has been deployed, and no statement runs afterwards.  *)
Thm_C16_TimeoutLeavesEverything ==
    /\ [](TimedOut =>
            /\ cleanup_steps = <<>>
            /\ s3_objects = {"raw"}
            /\ local_data = {"raw"}
            /\ endpoint = "none"
            /\ sm_model = "none"
            /\ invocations = 0
            /\ ~ENABLED Next)
    /\ [][TimedOut' => UNCHANGED <<s3_objects, local_data, endpoint, sm_model, cleanup_steps>>]_vars

(* the run stopped by the timeout with the upload and the local files in   *)
(* place and nothing deployed                                              *)
Wit_C16_TimeoutLeavesEverything ==
    /\ TimedOut
    /\ uploads = 1
    /\ s3_objects = {"raw"}
    /\ local_data = {"raw"}
    /\ endpoint = "none"
    /\ cleanup_steps = <<>>

Bijections(S, T) == {f \in [S -> T] : \A t \in T : \E x \in S : f[x] = t}

(* the results table exists: the cell ran to its end *)
ResultsMade == parses > 0 /\ error = "none"

RowOf(r) == [docname |-> r.docname, topic |-> r.topic, proportion |-> r.proportion]

(* val is the terms ts joined with ", " *)
IsJoined(val, ts) ==
    /\ Len(val) = 2 * Len(ts) - 1
    /\ \A k \in 1..Len(ts) : val[2 * k - 1] = ts[k]
    /\ \A k \in 1..(Len(ts) - 1) : val[2 * k] = ", "

(* cell is the terms of topic t in the file, by descending weight *)
TermsOfTopic(cell, t) ==
    LET idx == {j \in DOMAIN topic_terms_csv : topic_terms_csv[j].topic = t}
        n == Cardinality(idx)
    IN  IF idx = {} THEN cell.isna
        ELSE /\ ~cell.isna
             /\ \E q \in Bijections(1..n, idx) :
                   /\ \A k \in 1..(n - 1) :
                         topic_terms_csv[q[k]].weight >= topic_terms_csv[q[k + 1]].weight
                   /\ IsJoined(cell.val, [k \in 1..n |-> topic_terms_csv[q[k]].term])

(* C8: the results table has one row per row of doc-topics.csv, with that  *)
(* row's docname, topic and proportion (the rows of docs, in docs' order), *)
(* and each row's term is the terms of its topic in topic-terms.csv joined *)
(* with ", " by descending weight, or missing when the topic has no terms. *)
Thm_C8_LeftJoin ==
    ResultsMade =>
        /\ Len(results) = Len(doc_topics_csv)
        /\ [i \in DOMAIN results |-> RowOf(results[i])] = docs
        /\ \E p \in Bijections(DOMAIN results, DOMAIN doc_topics_csv) :
              \A i \in DOMAIN results : RowOf(results[i]) = doc_topics_csv[p[i]]
        /\ \A i \in DOMAIN results : TermsOfTopic(results[i].term, results[i].topic)

(* two document rows, one of a topic without terms and one of a topic      *)
(* whose two terms stand in the file in ascending weight                   *)
Wit_C8_LeftJoin ==
    /\ ResultsMade
    /\ Len(results) = 2
    /\ Len(topic_terms_csv) = 2
    /\ topic_terms_csv[1].topic = topic_terms_csv[2].topic
    /\ topic_terms_csv[1].weight < topic_terms_csv[2].weight
    /\ \E i, j \in DOMAIN results :
          /\ results[i].term.isna
          /\ ~results[j].term.isna
          /\ results[j].term.val = <<topic_terms_csv[2].term, ", ", topic_terms_csv[1].term>>

===========================================================================
